---- MODULE Spec2Model ----
(***************************************************************************)
(* Message Scheduler (src/main.py): the TaskManager registry, its repeat   *)
(* loops (asyncio tasks) and the sendmessages, stoptask, listtasks and     *)
(* taskinfo command handlers.                                              *)
(*                                                                         *)
(* Execution model: one asyncio event loop.  A coroutine runs without      *)
(* interruption between two awaits, so every action below is the code      *)
(* between two consecutive suspension points of one coroutine.             *)
(* asyncio.Task.cancel() is a request: the CancelledError is raised in the *)
(* task at the await it is suspended in (or before its first step) the     *)
(* next time the event loop runs it.  CancelledError derives from          *)
(* BaseException (Python >= 3.8), so `except Exception` does not catch it. *)
(***************************************************************************)
EXTENDS Integers, Sequences, FiniteSets, Bags, TLC

\* ------------------------------------------------------------------ bounds
\* Command handlers that may be in flight at the same time.
MaxHandlers == 2
\* Loop tasks that the manager no longer references and that have not yet
\* terminated, at the same time.
MaxDetached == 1

Slots == 1..MaxDetached

\* ------------------------------------------------------------ raw values
\* A value as the configuration store or the command line holds it.
\* t = "num": a number n; t = "numstr": a string that int()/float() parse to
\* n; t = "str": any other string s; t = "null": None.
Num(n) == [t |-> "num", n |-> n, s |-> ""]
NumStr(n) == [t |-> "numstr", n |-> n, s |-> ""]
Str(s) == [t |-> "str", n |-> 0, s |-> s]
Null == [t |-> "null", n |-> 0, s |-> ""]

\* int(x) / float(x): the number, or the exception raised.
ToNumber(x) ==
    CASE x.t = "num" -> [ok |-> TRUE, v |-> x.n, exc |-> "none"]
      [] x.t = "numstr" -> [ok |-> TRUE, v |-> x.n, exc |-> "none"]
      [] x.t = "str" -> [ok |-> FALSE, v |-> 0, exc |-> "ValueError"]
      [] OTHER -> [ok |-> FALSE, v |-> 0, exc |-> "TypeError"]

\* str(x): never raises.
ToText(x) ==
    CASE x.t = "str" -> x.s
      [] x.t = "null" -> "None"
      [] OTHER -> ToString(x.n)

\* ------------------------------------------------------------------ names
\* A name is a sequence of characters; "sp" is a space, "dq" a double quote.
RECURSIVE LStrip(_, _)
LStrip(s, chars) ==
    IF s # <<>> /\ Head(s) \in chars THEN LStrip(Tail(s), chars) ELSE s

RECURSIVE RStrip(_, _)
RStrip(s, chars) ==
    IF s # <<>> /\ s[Len(s)] \in chars
    THEN RStrip(SubSeq(s, 1, Len(s) - 1), chars)
    ELSE s

\* str.strip() and str.strip('"')
Strip(s, chars) == RStrip(LStrip(s, chars), chars)

\* The name tokens of .sendmessages: a, ` "a"` (the same name once stripped)
\* and `""` (the empty name once stripped); the names given to .stoptask
\* and .taskinfo: a, the stored names b and c, and the empty name.
NameTokens == { <<"a">>, <<"sp", "dq", "a", "dq">>, <<"dq", "dq">> }
StopNames == { <<"a">>, <<"b">>, <<"c">>, <<>> }
\* every name of the model
Names == { <<"a">>, <<"b">>, <<"c">>, <<>> }

\* Channel ids: bot.get_channel resolves the accessible ones only.
Accessible == {42}

\* ------------------------------------------------------- ScheduledTask
ScheduledTask(name, channel_id, delay, message) ==
    [name |-> name, channel_id |-> channel_id, delay |-> delay, message |-> message]

\* to_config as it would be with the "message" key left out.
to_config_without_message(task) ==
    [channel_id |-> Num(task.channel_id),
     delay |-> Num(task.delay)]

to_config(task) ==
    [channel_id |-> Num(task.channel_id),
     delay |-> Num(task.delay),
     message |-> Str(task.message)]

\* ---------------------------------------------------- parse_definition
\* The argument string of .sendmessages, by the shape the parser sees:
\* form "blank" (empty, "help" or "?"), "no_comma", "no_open_quotes",
\* "no_close_quotes", "no_separator", "one_part" (the parser's raise sites),
\* or "full": name_token, """message""", channel_token, delay_token.
\* A token is a sequence of pieces: <<NumStr(42)>> is "42" and
\* <<Str("<#"), NumStr(42), Str(">")>> is the channel mention "<#42>".
Args(form, name_token, message, channel_token, delay_token) ==
    [form |-> form, name_token |-> name_token, message |-> message,
     channel_token |-> channel_token, delay_token |-> delay_token]

Mention(x) == << Str("<#"), x, Str(">") >>

\* int(token) / float(token) of a command-line token.
TokenToNumber(token) ==
    IF Len(token) = 1 THEN ToNumber(token[1])
    ELSE [ok |-> FALSE, v |-> 0, exc |-> "ValueError"]

Malformed == [ok |-> FALSE]

parse_definition(args) ==
    IF args.form # "full" THEN Malformed
    ELSE
      LET name == Strip(Strip(args.name_token, {"sp"}), {"dq"})
          \* "<#42>" -> "42"
          channel_token ==
              IF /\ Len(args.channel_token) >= 2
                 /\ Head(args.channel_token) = Str("<#")
                 /\ args.channel_token[Len(args.channel_token)] = Str(">")
              THEN SubSeq(args.channel_token, 2, Len(args.channel_token) - 1)
              ELSE args.channel_token
          delay == TokenToNumber(args.delay_token)
          channel_id == TokenToNumber(channel_token)
      IN IF ~delay.ok \/ ~channel_id.ok THEN Malformed
         ELSE [ok |-> TRUE,
               task |-> ScheduledTask(name, channel_id.v, delay.v, args.message)]

\* The payloads (message, channel token, delay token) of the commands:
\* two that parse and resolve, differing in every field (the second with a
\* channel mention and a zero delay), and three that fail (inaccessible
\* channel, unparsable channel, unparsable delay).
GoodPayloads ==
    { <<"hi", <<NumStr(42)>>, <<NumStr(5)>> >>,
      <<"yo", Mention(NumStr(42)), <<NumStr(0)>> >> }

OddPayloads ==
    { <<"hi", <<NumStr(99)>>, <<NumStr(5)>> >>,
      <<"hi", Mention(Str("abc")), <<NumStr(5)>> >>,
      <<"hi", <<NumStr(42)>>, <<Str("abc")>> >> }

BadForms == { "blank", "no_comma", "no_open_quotes", "no_close_quotes",
              "no_separator", "one_part" }

ArgStrings ==
    { Args("full", n, p[1], p[2], p[3]) :
          n \in { <<"a">>, <<"sp", "dq", "a", "dq">> }, p \in GoodPayloads }
    \cup { Args("full", <<"dq", "dq">>, "hi", <<NumStr(42)>>, <<NumStr(5)>>) }
    \cup { Args("full", <<"a">>, p[1], p[2], p[3]) : p \in OddPayloads }
    \cup { Args(f, <<"a">>, "hi", <<NumStr(42)>>, <<NumStr(5)>>) : f \in BadForms }

\* ------------------------------------------------------------------ state
VARIABLES
    tasks,      \* TaskManager.tasks: name -> ScheduledTask
    running,    \* TaskManager.running: name -> the loop task (its state)
    detached,   \* loop tasks of the event loop that running no longer holds
    store,      \* the configuration store's "active_tasks"
    handlers    \* the command handlers in flight: a bag of coroutine states

vars == << tasks, running, detached, store, handlers >>

EmptyMap == [x \in {} |-> x]
Put(f, k, v) == [x \in DOMAIN f \cup {k} |-> IF x = k THEN v ELSE f[x]]
Drop(f, k) == [x \in DOMAIN f \ {k} |-> f[x]]

\* --------------------------------------------------------- persistence
EntryKeys == {"channel_id", "delay", "message"}

\* One stored entry converts without KeyError, TypeError or ValueError.
Loadable(raw) ==
    /\ EntryKeys \subseteq DOMAIN raw
    /\ ToNumber(raw["channel_id"]).ok
    /\ ToNumber(raw["delay"]).ok

load_tasks(stored) ==
    [name \in {n \in DOMAIN stored : Loadable(stored[n])} |->
        ScheduledTask(name,
                      ToNumber(stored[name]["channel_id"]).v,
                      ToNumber(stored[name]["delay"]).v,
                      ToText(stored[name]["message"]))]

\* TaskManager.save: updateConfigData either writes the whole mapping or
\* raises (io = "failed").  The content written for the definitions ts.
save(ts, io) ==
    IF io = "ok" THEN [name \in DOMAIN ts |-> to_config(ts[name])] ELSE store

IoOutcomes == {"ok", "failed"}

\* What the store may hold when the script is loaded: nothing; what the
\* program saved; an edited file (a channel id written as a string, a zero
\* delay, and an entry whose delay is not a number).
InitStores ==
    { EmptyMap,
      (<<"a">> :> to_config(ScheduledTask(<<"a">>, 42, 5, "hi"))),
      (<<"b">> :> [channel_id |-> NumStr(42), delay |-> Num(0), message |-> Str("hi")])
        @@ (<<"c">> :> [channel_id |-> Num(42), delay |-> Str("abc"), message |-> Str("hi")]) }

\* ------------------------------------------------------------ send_loop
\* The state of one loop task.  pc: "created" (scheduled by create_task, not
\* yet run), "sending" (in await channel.send), "sleeping" (in await
\* asyncio.sleep), "done" (the coroutine ended).  cancelled: cancel() was
\* called on the task.  last: how the send attempt of the current cycle
\* ended ("ok", "failed"; "none" before it ends).
NoLoop == [pc |-> "none", name |-> <<>>, cancelled |-> FALSE, last |-> "none"]
NewLoop(name) == [pc |-> "created", name |-> name, cancelled |-> FALSE, last |-> "none"]
Ended(loop) == [loop EXCEPT !.pc = "done", !.last = "none"]

\* asyncio.Task.cancel(): a request; nothing happens to a finished task.
cancel(loop) ==
    IF loop.pc \in {"none", "done"} THEN loop ELSE [loop EXCEPT !.cancelled = TRUE]

\* send_loop as it would be with `except BaseException`: the CancelledError
\* raised in channel.send is caught and printed, and the loop goes on.
send_loop_catching_all(loop, ev) ==
    IF loop.pc \in {"none", "done"} THEN loop
    ELSE IF loop.cancelled
    THEN IF loop.pc = "sending"
         THEN [loop EXCEPT !.pc = "sleeping", !.cancelled = FALSE, !.last = "failed"]
         ELSE Ended(loop)
    ELSE CASE ev = "step" /\ loop.pc = "created" ->
                [loop EXCEPT !.pc = "sending"]
           [] ev = "sent" /\ loop.pc = "sending" ->
                [loop EXCEPT !.pc = "sleeping", !.last = "ok"]
           [] ev = "send_error" /\ loop.pc = "sending" ->
                [loop EXCEPT !.pc = "sleeping", !.last = "failed"]
           [] ev = "timer" /\ loop.pc = "sleeping" ->
                [loop EXCEPT !.pc = "sending", !.last = "none"]
           [] OTHER -> loop

\* send_loop as it would be if the send were shielded from cancellation: a
\* cancellation requested during channel.send is seen after the send.
send_loop_shielding_send(loop, ev) ==
    IF loop.pc \in {"none", "done"} THEN loop
    ELSE IF loop.cancelled
    THEN IF loop.pc = "sending"
         THEN [loop EXCEPT !.pc = "sleeping", !.last = "ok"]
         ELSE Ended(loop)
    ELSE CASE ev = "step" /\ loop.pc = "created" ->
                [loop EXCEPT !.pc = "sending"]
           [] ev = "sent" /\ loop.pc = "sending" ->
                [loop EXCEPT !.pc = "sleeping", !.last = "ok"]
           [] ev = "send_error" /\ loop.pc = "sending" ->
                [loop EXCEPT !.pc = "sleeping", !.last = "failed"]
           [] ev = "timer" /\ loop.pc = "sleeping" ->
                [loop EXCEPT !.pc = "sending", !.last = "none"]
           [] OTHER -> loop

\* send_loop as it would be with the sleep ahead of the send in the loop
\* body: the first step goes into the delay.
send_loop_sleeping_first(loop, ev) ==
    IF loop.pc \in {"none", "done"} THEN loop
    ELSE IF loop.cancelled THEN Ended(loop)
    ELSE CASE ev = "step" /\ loop.pc = "created" ->
                [loop EXCEPT !.pc = "sleeping"]
           [] ev = "sent" /\ loop.pc = "sending" ->
                [loop EXCEPT !.pc = "sleeping", !.last = "ok"]
           [] ev = "send_error" /\ loop.pc = "sending" ->
                [loop EXCEPT !.pc = "sleeping", !.last = "failed"]
           [] ev = "timer" /\ loop.pc = "sleeping" ->
                [loop EXCEPT !.pc = "sending", !.last = "none"]
           [] OTHER -> loop

\* send_loop as it would be without the try/except around channel.send: the
\* exception of a failed send ends the coroutine.
send_loop_without_except(loop, ev) ==
    IF loop.pc \in {"none", "done"} THEN loop
    ELSE IF loop.cancelled THEN Ended(loop)
    ELSE CASE ev = "step" /\ loop.pc = "created" ->
                [loop EXCEPT !.pc = "sending"]
           [] ev = "sent" /\ loop.pc = "sending" ->
                [loop EXCEPT !.pc = "sleeping", !.last = "ok"]
           [] ev = "send_error" /\ loop.pc = "sending" ->
                Ended(loop)
           [] ev = "timer" /\ loop.pc = "sleeping" ->
                [loop EXCEPT !.pc = "sending", !.last = "none"]
           [] OTHER -> loop

\* One step of the task running send_loop, on the event that resumes it:
\* "step" (first run), "sent" / "send_error" (channel.send returned / raised
\* an Exception), "timer" (asyncio.sleep returned), "cancel" (the event loop
\* runs a task whose cancellation was requested).  A task whose cancellation
\* was requested gets CancelledError at its await (or before its first
\* step), which `except Exception` does not catch: the coroutine ends.
send_loop(loop, ev) ==
    IF loop.pc \in {"none", "done"} THEN loop
    ELSE IF loop.cancelled THEN Ended(loop)
    ELSE CASE ev = "step" /\ loop.pc = "created" ->
                [loop EXCEPT !.pc = "sending"]
           [] ev = "sent" /\ loop.pc = "sending" ->
                [loop EXCEPT !.pc = "sleeping", !.last = "ok"]
           [] ev = "send_error" /\ loop.pc = "sending" ->
                [loop EXCEPT !.pc = "sleeping", !.last = "failed"]
           [] ev = "timer" /\ loop.pc = "sleeping" ->
                [loop EXCEPT !.pc = "sending", !.last = "none"]
           [] OTHER -> loop

\* The loop tasks of the event loop: those running holds, by name, and the
\* detached ones, by slot.
InRunning(name) == [in |-> "running", name |-> name, slot |-> 0]
InDetached(slot) == [in |-> "detached", name |-> <<>>, slot |-> slot]
Positions ==
    {InRunning(n) : n \in DOMAIN running} \cup {InDetached(s) : s \in Slots}
LoopAt(p) ==
    IF p.in = "detached" THEN detached[p.slot]
    ELSE IF p.name \in DOMAIN running THEN running[p.name]
    ELSE NoLoop

Alive(loop) == loop.pc \in {"created", "sending", "sleeping"}
\* live: spawned and cancellation not requested
Live(loop) == Alive(loop) /\ ~loop.cancelled

FreeSlots == {s \in Slots : ~Alive(detached[s])}
\* The event loop keeps a task that running has dropped until it ends.  (The
\* record of its last send outcome is history, and dropped with it.)
Detached(loop) == [loop EXCEPT !.last = "none"]
Detach(loop) ==
    IF ~Alive(loop) THEN detached
    ELSE LET s == CHOOSE x \in FreeSlots : \A y \in FreeSlots : x <= y
         IN [detached EXCEPT ![s] = Detached(loop)]
CanDetach(loop) == Alive(loop) => FreeSlots # {}

\* ----------------------------------------------------------- TaskManager
get(name) == IF name \in DOMAIN tasks THEN tasks[name] ELSE Null

\* A collection as its caller holds it: a dictionary of the caller's own
\* (ref "copy", val its content) or the manager's dictionary itself (ref
\* "live"), whose content is whatever self.tasks holds now.
NoResult == [ref |-> "none", val |-> EmptyMap]
Copy(ts) == [ref |-> "copy", val |-> ts]
Content(held) == IF held.ref = "live" THEN tasks ELSE held.val

\* list as it would be with `return self.tasks`.
list_returning_tasks == [ref |-> "live", val |-> EmptyMap]

\* TaskManager.list: dict(self.tasks)
list == Copy(tasks)

format_delay(seconds) ==
    IF seconds < 60 THEN ToString(seconds) \o " seconds"
    ELSE LET minutes == seconds \div 60
             sec == seconds % 60
         IN IF minutes < 60
            THEN ToString(minutes) \o "m " \o ToString(sec) \o "s"
            ELSE ToString(minutes \div 60) \o "h " \o ToString(minutes % 60) \o "m"

get_channel(channel_id) == IF channel_id \in Accessible THEN Num(channel_id) ELSE Null

\* TaskManager.start: how the call ends.
start_result(task, io) ==
    IF get_channel(task.channel_id) = Null THEN "ChannelUnavailable"
    ELSE IF io = "failed" THEN "PersistenceFailure"
    ELSE "scheduled"

\* start as it would be with the channel check after create_task: the loop
\* is spawned and registered before the ValueError is raised.
start_spawning_first(task, io) ==
    /\ IF task.name \in DOMAIN running
       THEN /\ CanDetach(running[task.name])
            /\ detached' = Detach(cancel(running[task.name]))
       ELSE detached' = detached
    /\ running' = Put(running, task.name, NewLoop(task.name))
    /\ tasks' = IF get_channel(task.channel_id) = Null THEN tasks
                ELSE Put(tasks, task.name, task)
    /\ store' = IF get_channel(task.channel_id) = Null THEN store
                ELSE save(tasks', io)

\* start as it would be with the definition inserted after self.save(): a
\* write that raises leaves the loop in running and no definition.
start_inserting_last(task, io) ==
    IF get_channel(task.channel_id) = Null
    THEN UNCHANGED << tasks, running, detached, store >>
    ELSE /\ IF task.name \in DOMAIN running
            THEN /\ CanDetach(running[task.name])
                 /\ detached' = Detach(cancel(running[task.name]))
            ELSE detached' = detached
         /\ running' = Put(running, task.name, NewLoop(task.name))
         /\ tasks' = IF io = "ok" THEN Put(tasks, task.name, task) ELSE tasks
         /\ store' = save(tasks, io)

\* start as it would be with self.save() before self.tasks[task.name] = task.
start_saving_first(task, io) ==
    IF get_channel(task.channel_id) = Null
    THEN UNCHANGED << tasks, running, detached, store >>
    ELSE /\ IF task.name \in DOMAIN running
            THEN /\ CanDetach(running[task.name])
                 /\ detached' = Detach(cancel(running[task.name]))
            ELSE detached' = detached
         /\ running' = Put(running, task.name, NewLoop(task.name))
         /\ tasks' = Put(tasks, task.name, task)
         /\ store' = save(tasks, io)

\* TaskManager.start: what the call does to the manager, the event loop and
\* the store.
start(task, io) ==
    IF get_channel(task.channel_id) = Null
    THEN UNCHANGED << tasks, running, detached, store >>
    ELSE /\ IF task.name \in DOMAIN running
            THEN /\ CanDetach(running[task.name])
                 /\ detached' = Detach(cancel(running[task.name]))
            ELSE detached' = detached
         /\ running' = Put(running, task.name, NewLoop(task.name))
         /\ tasks' = Put(tasks, task.name, task)
         /\ store' = save(tasks', io)

\* stop's result as it would be without `stopped = True` after the
\* definition is removed.
stop_result_of_loop_only(name, io) ==
    IF name \in DOMAIN tasks /\ io = "failed" THEN "PersistenceFailure"
    ELSE IF name \in DOMAIN running THEN "stopped"
    ELSE "not_found"

\* TaskManager.stop: how the call ends.
stop_result(name, io) ==
    IF name \in DOMAIN tasks /\ io = "failed" THEN "PersistenceFailure"
    ELSE IF name \in DOMAIN running \/ name \in DOMAIN tasks THEN "stopped"
    ELSE "not_found"

\* stop as it would be without the removal of the definition.
stop_keeping_definition(name, io) ==
    /\ IF name \in DOMAIN running
       THEN /\ CanDetach(running[name])
            /\ detached' = Detach(cancel(running[name]))
       ELSE detached' = detached
    /\ running' = Drop(running, name)
    /\ tasks' = tasks
    /\ store' = IF name \in DOMAIN tasks THEN save(tasks', io) ELSE store

\* stop as it would be without `self.save()`.
stop_without_save(name, io) ==
    /\ IF name \in DOMAIN running
       THEN /\ CanDetach(running[name])
            /\ detached' = Detach(cancel(running[name]))
       ELSE detached' = detached
    /\ running' = Drop(running, name)
    /\ tasks' = Drop(tasks, name)
    /\ store' = store

\* stop as it would be without `task.cancel()`: the loop is dropped, not cancelled.
stop_without_cancel(name, io) ==
    /\ IF name \in DOMAIN running
       THEN /\ CanDetach(running[name])
            /\ detached' = Detach(running[name])
       ELSE detached' = detached
    /\ running' = Drop(running, name)
    /\ tasks' = Drop(tasks, name)
    /\ store' = IF name \in DOMAIN tasks THEN save(tasks', io) ELSE store

\* TaskManager.stop: what the call does.
stop(name, io) ==
    /\ IF name \in DOMAIN running
       THEN /\ CanDetach(running[name])
            /\ detached' = Detach(cancel(running[name]))
       ELSE detached' = detached
    /\ running' = Drop(running, name)
    /\ tasks' = Drop(tasks, name)
    /\ store' = IF name \in DOMAIN tasks THEN save(tasks', io) ELSE store

\* ------------------------------------------------------ command handlers
\* A handler is a coroutine.  pc is the await it is suspended in: "delete"
\* (ctx.message.delete()) or the ctx.send of a reply, "reply_help",
\* "reply_conflict", "reply_scheduled", "reply_error" in start_send and
\* "reply_required", "reply_result" in stop_task.  message is its local
\* variable of that name, the reply being sent: the title, and for "Could
\* not schedule task" the exception the body str(exc) reports.
\* Handlers in the same state are interchangeable: handlers is the bag of
\* the states of the coroutines in flight.
\* held is the local variable that holds what manager.list() or
\* manager.get() returned, and body what the reply shows of it.
Handler(cmd, pc, message) ==
    [cmd |-> cmd, pc |-> pc, message |-> message, held |-> NoResult, body |-> EmptyMap]
Query(cmd, message, held, body) ==
    [cmd |-> cmd, pc |-> "reply_result", message |-> message, held |-> held, body |-> body]

InFlight(h) == BagIn(h, handlers)
Dispatch(h) ==
    /\ BagCardinality(handlers) < MaxHandlers
    /\ handlers' = handlers (+) SetToBag({h})
\* the coroutine in state h runs to its next await, in state rec
Goto(h, rec) == handlers' = (handlers (-) SetToBag({h})) (+) SetToBag({rec})
\* the coroutine in state h ends, by return or by an exception
Leave(h) == handlers' = handlers (-) SetToBag({h})

AtDelete(cmd) == Handler(cmd, "delete", "")

\* The bot dispatches `.sendmessages <args>`: start_send runs up to its first
\* await.  Nothing reads args before that await returns, so the argument
\* string is drawn where start_send first reads it.
InvokeStartSend ==
    /\ Dispatch(AtDelete("sendmessages"))
    /\ UNCHANGED << tasks, running, detached, store >>

\* The bot dispatches `.stoptask <name>`; name is drawn where stop_task reads it.
InvokeStopTask ==
    /\ Dispatch(AtDelete("stoptask"))
    /\ UNCHANGED << tasks, running, detached, store >>

\* ctx.message.delete() raises: the exception leaves the handler.
DeleteFails(h) ==
    /\ InFlight(h) /\ h.pc = "delete"
    /\ Leave(h)
    /\ UNCHANGED << tasks, running, detached, store >>

CouldNot(exc) == Handler("sendmessages", "reply_error", exc)

\* start_send as it would be if manager.start suspended before it spawns
\* the loop (an await ahead of create_task): the handler stops after its
\* check, with nothing started.
start_send_suspending_in_start(h, args, io) ==
    /\ InFlight(h) /\ h = AtDelete("sendmessages")
    /\ LET parsed == parse_definition(args)
       IN IF args.form = "blank"
          THEN Goto(h, Handler("sendmessages", "reply_help", "Message Scheduler Help"))
          ELSE IF ~parsed.ok
          THEN Goto(h, CouldNot("MalformedDefinition"))
          ELSE IF get(parsed.task.name) # Null
          THEN Goto(h, Handler("sendmessages", "reply_conflict", "Task name already in use"))
          ELSE Goto(h, Handler("sendmessages", "starting", ""))
    /\ UNCHANGED << tasks, running, detached, store >>

\* start_send as it would be without the `if existing:` check.
start_send_without_check(h, args, io) ==
    /\ InFlight(h) /\ h = AtDelete("sendmessages")
    /\ LET parsed == parse_definition(args)
       IN IF args.form = "blank"
          THEN /\ Goto(h, Handler("sendmessages", "reply_help", "Message Scheduler Help"))
               /\ UNCHANGED << tasks, running, detached, store >>
          ELSE IF ~parsed.ok
          THEN /\ Goto(h, CouldNot("MalformedDefinition"))
               /\ UNCHANGED << tasks, running, detached, store >>
          ELSE /\ start(parsed.task, io)
               /\ LET r == start_result(parsed.task, io)
                  IN Goto(h, IF r = "scheduled"
                             THEN Handler("sendmessages", "reply_scheduled", "Task scheduled!")
                             ELSE CouldNot(r))

\* start_send from the return of ctx.message.delete() to its next await.
start_send(h, args, io) ==
    /\ InFlight(h) /\ h = AtDelete("sendmessages")
    /\ LET parsed == parse_definition(args)
       IN IF args.form = "blank"
          THEN /\ Goto(h, Handler("sendmessages", "reply_help", "Message Scheduler Help"))
               /\ UNCHANGED << tasks, running, detached, store >>
          ELSE IF ~parsed.ok
          THEN /\ Goto(h, CouldNot("MalformedDefinition"))
               /\ UNCHANGED << tasks, running, detached, store >>
          ELSE IF get(parsed.task.name) # Null
          THEN /\ Goto(h, Handler("sendmessages", "reply_conflict", "Task name already in use"))
               /\ UNCHANGED << tasks, running, detached, store >>
          ELSE /\ start(parsed.task, io)
               /\ LET r == start_result(parsed.task, io)
                  IN Goto(h, IF r = "scheduled"
                             THEN Handler("sendmessages", "reply_scheduled", "Task scheduled!")
                             ELSE CouldNot(r))

\* stop_task from the return of ctx.message.delete() to its next await; an
\* exception of manager.stop leaves the handler (there is no try).
stop_task(h, name, io) ==
    /\ InFlight(h) /\ h = AtDelete("stoptask")
    /\ IF Strip(name, {"sp"}) = <<>>
       THEN /\ Goto(h, Handler("stoptask", "reply_required", "Task name required"))
            /\ UNCHANGED << tasks, running, detached, store >>
       ELSE /\ stop(name, io)
            /\ LET r == stop_result(name, io)
               IN CASE r = "stopped" ->
                         Goto(h, Handler("stoptask", "reply_result", "Task stopped"))
                    [] r = "not_found" ->
                         Goto(h, Handler("stoptask", "reply_result", "Task not found"))
                    [] OTHER -> Leave(h)

\* The bot dispatches `.listtasks` / `.taskinfo <name>`.
InvokeListTasks ==
    /\ Dispatch(AtDelete("listtasks"))
    /\ UNCHANGED << tasks, running, detached, store >>

InvokeTaskInfo ==
    /\ Dispatch(AtDelete("taskinfo"))
    /\ UNCHANGED << tasks, running, detached, store >>

\* the lines of the listing: name, interval and channel of each task
ListLines(ts) ==
    [n \in DOMAIN ts |->
        [interval |-> format_delay(ts[n].delay), channel |-> ts[n].channel_id]]

\* list_tasks from the return of ctx.message.delete() to its reply.
list_tasks(h) ==
    /\ InFlight(h) /\ h = AtDelete("listtasks")
    /\ LET ts == list
       IN IF Content(ts) = EmptyMap
          THEN Goto(h, Query("listtasks", "No active tasks", ts, EmptyMap))
          ELSE Goto(h, Query("listtasks", "Active message tasks", ts, ListLines(Content(ts))))
    /\ UNCHANGED << tasks, running, detached, store >>

\* the highlights of the details: channel, interval and message
InfoLines(task) ==
    (task.name :> [interval |-> format_delay(task.delay), channel |-> task.channel_id,
                   message |-> IF task.message = "" THEN "(message is empty)"
                               ELSE task.message])

\* task_info from the return of ctx.message.delete() to its reply.
task_info(h, name) ==
    /\ InFlight(h) /\ h = AtDelete("taskinfo")
    /\ IF Strip(name, {"sp"}) = <<>>
       THEN Goto(h, Handler("taskinfo", "reply_required", "Task name required"))
       ELSE IF get(name) = Null
       THEN Goto(h, Handler("taskinfo", "reply_result", "Task not found"))
       ELSE Goto(h, Query("taskinfo", "Details", Copy(name :> get(name)), InfoLines(get(name))))
    /\ UNCHANGED << tasks, running, detached, store >>

IsReply(h) ==
    InFlight(h) /\ h.pc \in
        {"reply_help", "reply_conflict", "reply_scheduled", "reply_error",
         "reply_required", "reply_result"}

\* The reply's ctx.send returns: the handler is over.
ReplySent(h) ==
    /\ IsReply(h)
    /\ Leave(h)
    /\ UNCHANGED << tasks, running, detached, store >>

\* The reply's ctx.send raises.  Inside start_send's try (the conflict and
\* the success reply) the except clause sends the failure reply instead;
\* anywhere else the exception leaves the handler.
ReplyFails(h) ==
    /\ IsReply(h)
    /\ IF h.pc \in {"reply_conflict", "reply_scheduled"}
       THEN Goto(h, CouldNot("ReplyFailure"))
       ELSE Leave(h)
    /\ UNCHANGED << tasks, running, detached, store >>

\* ------------------------------------------------------------ loop tasks
\* The event loop resumes the loop task at p with event ev.  A task that
\* ended stays in running (a finished Task object) and leaves the event loop.
LoopEvent(p, ev) ==
    LET loop == LoopAt(p)
        next == send_loop(loop, ev)
    IN /\ Alive(loop)
       /\ next # loop
       /\ IF p.in = "running"
          THEN /\ running' = [running EXCEPT ![p.name] = next]
               /\ detached' = detached
          ELSE /\ detached' = [detached EXCEPT ![p.slot] = IF Alive(next) THEN next ELSE NoLoop]
               /\ running' = running
       /\ UNCHANGED << tasks, store, handlers >>

\* first step of the task: the loop begins its first send attempt
LoopRuns(p) == ~LoopAt(p).cancelled /\ LoopEvent(p, "step")
\* channel.send returns
SendReturns(p) == ~LoopAt(p).cancelled /\ LoopEvent(p, "sent")
\* channel.send raises an Exception
SendRaises(p) == ~LoopAt(p).cancelled /\ LoopEvent(p, "send_error")
\* asyncio.sleep returns: the loop begins its next send attempt
SleepReturns(p) == ~LoopAt(p).cancelled /\ LoopEvent(p, "timer")
\* the event loop delivers the requested cancellation
CancelDelivered(p) == LoopAt(p).cancelled /\ LoopEvent(p, "cancel")

\* ----------------------------------------------------------- the system
Init ==
    /\ store \in InitStores
    /\ tasks = load_tasks(store)
    /\ running = EmptyMap
    /\ detached = [s \in Slots |-> NoLoop]
    /\ handlers = EmptyBag

Next ==
    \/ InvokeStartSend
    \/ InvokeStopTask
    \/ \E h \in BagToSet(handlers) : DeleteFails(h)
    \/ \E h \in BagToSet(handlers), args \in ArgStrings, io \in IoOutcomes : start_send(h, args, io)
    \/ \E h \in BagToSet(handlers), name \in StopNames, io \in IoOutcomes : stop_task(h, name, io)
    \/ \E h \in BagToSet(handlers) : ReplySent(h)
    \/ \E h \in BagToSet(handlers) : ReplyFails(h)
    \/ \E p \in Positions : LoopRuns(p)
    \/ \E p \in Positions : SendReturns(p)
    \/ \E p \in Positions : SendRaises(p)
    \/ \E p \in Positions : SleepReturns(p)
    \/ \E p \in Positions : CancelDelivered(p)

Spec == Init /\ [][Next]_vars

\* The system with the listtasks and taskinfo commands.
QueryNext ==
    \/ Next
    \/ InvokeListTasks
    \/ InvokeTaskInfo
    \/ \E h \in BagToSet(handlers) : list_tasks(h)
    \/ \E h \in BagToSet(handlers), name \in StopNames : task_info(h, name)

QuerySpec == Init /\ [][QueryNext]_vars

\* ------------------------------------------------------------ startup
\* The construction of the manager, TaskManager.__init__, over the stores
\* it may find: every mapping of at most two names to the entries below (a
\* saved entry; entries with a key missing; values of another type, some
\* of which int(), float() and str() convert).
RawEntries ==
    { [channel_id |-> Num(42), delay |-> Num(5), message |-> Str("hi")],
      [channel_id |-> Num(42), delay |-> Num(5)],
      [channel_id |-> Num(42), message |-> Str("hi")],
      EmptyMap,
      [channel_id |-> Num(42), delay |-> Str("abc"), message |-> Str("hi")],
      [channel_id |-> Null, delay |-> Num(5), message |-> Str("hi")],
      [channel_id |-> NumStr(42), delay |-> Num(5), message |-> Str("hi")],
      [channel_id |-> Num(42), delay |-> NumStr(5), message |-> Str("hi")],
      [channel_id |-> Num(42), delay |-> Num(5), message |-> Num(7)],
      [channel_id |-> Num(42), delay |-> Num(5), message |-> Null] }

LoadStores ==
    UNION { [ns -> RawEntries] : ns \in SUBSET { <<"a">>, <<"b">> } }

\* before the constructor has run
LoadInit ==
    /\ store \in LoadStores
    /\ tasks = EmptyMap
    /\ running = EmptyMap
    /\ detached = [s \in Slots |-> NoLoop]
    /\ handlers = EmptyBag

\* manager = TaskManager()
Load ==
    /\ running' = EmptyMap
    /\ tasks' = load_tasks(store)
    /\ UNCHANGED << store, detached, handlers >>

LoadSpec == LoadInit /\ [][Load]_vars

\* The event loop runs every task that is ready: a task whose cancellation
\* was requested is resumed with the CancelledError, and a task in
\* asyncio.sleep is resumed when its (finite) delay has passed.
Fairness ==
    /\ \A s \in Slots : WF_vars(CancelDelivered(InDetached(s)))
    /\ \A n \in Names : WF_vars(SleepReturns(InRunning(n)))

LiveSpec == Spec /\ Fairness

\* The event loop runs a task that was created, and every send attempt
\* returns or raises (the channel answers).
SendFairness ==
    \A n \in Names :
        /\ WF_vars(LoopRuns(InRunning(n)))
        /\ WF_vars(SendReturns(InRunning(n)) \/ SendRaises(InRunning(n)))

LoopSpec == LiveSpec /\ SendFairness

\* ============================================================== claims
Manager == << tasks, running, detached, store >>

\* the handler states the claims speak of
Calling == AtDelete("sendmessages")
Stopping == AtDelete("stoptask")
Conflict == Handler("sendmessages", "reply_conflict", "Task name already in use")
Scheduled == Handler("sendmessages", "reply_scheduled", "Task scheduled!")
Stopped == Handler("stoptask", "reply_result", "Task stopped")
NotFound == Handler("stoptask", "reply_result", "Task not found")

\* the live loops that send for name n, wherever the event loop holds them
LiveLoopsOf(n) == {p \in Positions : Live(LoopAt(p)) /\ LoopAt(p).name = n}

\* C1: in every reachable state, under every interleaving of the command
\* handlers, each task name has at most one live repeat loop (live: spawned,
\* cancellation not requested); the live loop is the one running holds.
C1_OneLiveLoopPerName ==
    \A n \in Names :
        /\ Cardinality(LiveLoopsOf(n)) <= 1
        /\ LiveLoopsOf(n) \subseteq {InRunning(n)}

\* Two register requests for one name with no cancel between them are in
\* flight together, one accepted and one rejected, and the name has its
\* one live loop.
C1_Witness ==
    /\ BagIn(Scheduled, handlers) /\ BagIn(Conflict, handlers)
    /\ \E n \in DOMAIN running : LiveLoopsOf(n) = {InRunning(n)}

\* C2: a register request whose name is in the definition set is rejected
\* with NameConflict whatever its channel, delay and message are, and the
\* rejection changes neither the definitions, nor the running loops, nor
\* the event loop's tasks, nor the store.
C2_ConflictMutatesNothing ==
    [][\A args \in ArgStrings, io \in IoOutcomes :
         LET parsed == parse_definition(args)
         IN (start_send(Calling, args, io) /\ parsed.ok
               /\ parsed.task.name \in DOMAIN tasks)
            => (Goto(Calling, Conflict) /\ UNCHANGED Manager)]_vars

\* A request was rejected while its name is held by the only definition,
\* one with a positive delay whose loop running holds.
C2_Witness ==
    /\ BagIn(Conflict, handlers)
    /\ \E n \in DOMAIN tasks : n \in DOMAIN running /\ tasks[n].delay > 0
    /\ Cardinality(DOMAIN tasks) = 1

\* the loop at l once cancel() was called on it and running dropped it
Zombie(loop) == [loop EXCEPT !.cancelled = TRUE, !.last = "none"]
Cancelled(loop) == Alive(loop) /\ loop.cancelled

\* C3: when cancel(name), called by a stoptask command (one given a name
\* that is not blank), finds a running loop it requests its cancellation,
\* whether the loop has not run yet, is in a send attempt or is waiting out
\* its delay; from then on the loop begins no send attempt (it makes no
\* step but its last), and it eventually terminates.
C3_CancelledLoopStops ==
    /\ [][/\ \A name \in StopNames, io \in IoOutcomes :
                (/\ stop_task(Stopping, name, io)
                 /\ Strip(name, {"sp"}) # <<>>
                 /\ name \in DOMAIN running)
                => /\ name \notin DOMAIN running'
                   /\ \E s \in Slots : /\ ~Alive(detached[s])
                                       /\ detached'[s] = Zombie(running[name])
          /\ \A s \in Slots :
                Cancelled(detached[s]) => detached'[s] \in {detached[s], NoLoop}]_vars
    /\ \A s \in Slots : Cancelled(detached[s]) ~> ~Alive(detached[s])

\* cancel(name) was reported done while the loop, spawned and not yet run,
\* has its cancellation pending.
C3_Witness ==
    /\ BagIn(Stopped, handlers)
    /\ \E s \in Slots : Cancelled(detached[s]) /\ detached[s].pc = "created"

\* C4: a register request whose name is free and whose channel id does not
\* resolve ends with ChannelUnavailable and changes nothing: no loop is
\* spawned or cancelled, the definitions and the store stay as they were.
C4_UnresolvedChannelMutatesNothing ==
    [][\A args \in ArgStrings, io \in IoOutcomes :
         LET parsed == parse_definition(args)
         IN (start_send(Calling, args, io) /\ parsed.ok
               /\ get(parsed.task.name) = Null
               /\ get_channel(parsed.task.channel_id) = Null)
            => (Goto(Calling, CouldNot("ChannelUnavailable")) /\ UNCHANGED Manager)]_vars

\* A request was refused for its channel while another task keeps its
\* definition and its live loop.
C4_Witness ==
    /\ BagIn(CouldNot("ChannelUnavailable"), handlers)
    /\ \E n \in DOMAIN running : Live(running[n]) /\ n \in DOMAIN tasks
    /\ \A s \in Slots : ~Alive(detached[s])

\* C5: every definition in the in-memory set and every stored entry that
\* load admits has a delay greater than zero.
C5_DelaysPositive ==
    /\ \A n \in DOMAIN tasks : tasks[n].delay > 0
    /\ \A n \in DOMAIN store :
          Loadable(store[n]) => ToNumber(store[n]["delay"]).v > 0

C7_SuccessAfterSpawnAndSave ==
    [][\A args \in ArgStrings, io \in IoOutcomes :
         LET parsed == parse_definition(args)
         IN (start_send(Calling, args, io) /\ parsed.ok
               /\ get(parsed.task.name) = Null
               /\ get_channel(parsed.task.channel_id) # Null)
            => LET d == parsed.task
               IN /\ Goto(Calling, Scheduled) <=> io = "ok"
                  /\ Goto(Calling, Scheduled)
                     => /\ d.name \in DOMAIN tasks' /\ tasks'[d.name] = d
                        /\ d.name \in DOMAIN running'
                        /\ running'[d.name] = NewLoop(d.name)
                        /\ DOMAIN store' = DOMAIN tasks'
                        /\ \A n \in DOMAIN tasks' : store'[n] = to_config(tasks'[n])
                        /\ load_tasks(store')[d.name] = d]_vars

\* Success was reported for a definition given with a channel mention: the
\* name has its definition, its new loop and its stored entry, next to an
\* older task.
C7_Witness ==
    /\ BagIn(Scheduled, handlers)
    /\ \E n \in DOMAIN tasks :
          /\ tasks[n].message = "yo"
          /\ n \in DOMAIN running /\ running[n].pc = "created"
          /\ n \in DOMAIN store /\ store[n] = to_config(tasks[n])
    /\ Cardinality(DOMAIN tasks) = 2

\* a stop_task step that calls manager.stop(name), and the same when the
\* call returns
Cancels(name, io) == stop_task(Stopping, name, io) /\ Strip(name, {"sp"}) # <<>>
Returned == Goto(Stopping, Stopped) \/ Goto(Stopping, NotFound)
\* what save writes for the definitions ts
Saved(ts) == [n \in DOMAIN ts |-> to_config(ts[n])]
\* every name but name keeps its definition and its loop
OthersUntouched(name) ==
    /\ DOMAIN tasks' \ {name} = DOMAIN tasks \ {name}
    /\ DOMAIN running' \ {name} = DOMAIN running \ {name}
    /\ \A m \in DOMAIN tasks' \ {name} : tasks'[m] = tasks[m]
    /\ \A m \in DOMAIN running' \ {name} : running'[m] = running[m]

C9_StoppedIffKnown ==
    [][\A name \in StopNames, io \in IoOutcomes :
         Cancels(name, io)
         => LET known == name \in DOMAIN running \/ name \in DOMAIN tasks
            IN /\ Goto(Stopping, Stopped) => known
               /\ Goto(Stopping, NotFound) => (~known /\ UNCHANGED Manager)
               /\ ~known => Goto(Stopping, NotFound)
               /\ known => \/ Goto(Stopping, Stopped)
                           \/ name \in DOMAIN tasks /\ io = "failed" /\ Leave(Stopping)
               /\ name \notin DOMAIN running' \cup DOMAIN tasks']_vars

\* Two cancels in a row: the first found the task, the second did not.
C9_Witness ==
    /\ BagIn(Stopped, handlers) /\ BagIn(NotFound, handlers)
    /\ tasks = EmptyMap /\ running = EmptyMap

\* C10: a loop ends only when its cancellation was requested; a send
\* attempt that fails leaves the loop alive and waiting out its delay, from
\* where it makes no step but the next send attempt, and unless the loop is
\* cancelled that attempt eventually begins.
C10_OnlyCancellationEndsLoop ==
    /\ [][/\ \A n \in DOMAIN running :
                Live(running[n])
                => \/ n \in DOMAIN running' /\ Live(running'[n])
                   \/ /\ n \notin DOMAIN running'
                      /\ \E s \in Slots : detached'[s] = Zombie(running[n])
          /\ \A s \in Slots :
                (Alive(detached[s]) /\ ~Alive(detached'[s])) => detached[s].cancelled
          /\ \A n \in DOMAIN running :
                SendRaises(InRunning(n))
                => running'[n] = [running[n] EXCEPT !.pc = "sleeping", !.last = "failed"]
          /\ \A n \in DOMAIN running \cap DOMAIN running' :
                (running[n].pc = "sleeping" /\ running'[n] # running[n])
                => running'[n] = [running[n] EXCEPT !.pc = "sending", !.last = "none"]]_vars
    /\ \A n \in Names :
          (n \in DOMAIN running /\ running[n].pc = "sleeping" /\ running[n].last = "failed")
          ~> (n \notin DOMAIN running \/ running[n].pc = "sending")

\* A loop whose send attempt failed is alive and waiting out its delay.
C10_Witness ==
    \E n \in DOMAIN running :
        /\ Live(running[n]) /\ running[n].pc = "sleeping" /\ running[n].last = "failed"
        /\ n \in DOMAIN tasks

\* the store, reloaded, yields the definitions in memory
Reloads == load_tasks(store) = tasks
\* a step of register or cancel whose write of the definitions fails
FailedWrite ==
    \/ \E args \in ArgStrings :
          start_send(Calling, args, "failed") /\ Goto(Calling, CouldNot("PersistenceFailure"))
    \/ \E name \in StopNames :
          Cancels(name, "failed") /\ name \in DOMAIN tasks

\* C11: what save writes for the definitions in memory loads back as
\* exactly these definitions; the store reloads to the definitions in
\* memory after every successful register and every cancel that removed a
\* definition, and stays so through every step but a failed write.
C11_RoundTrip ==
    /\ [](load_tasks(Saved(tasks)) = tasks)
    /\ [][/\ \A args \in ArgStrings :
                (start_send(Calling, args, "ok") /\ Goto(Calling, Scheduled)) => Reloads'
          /\ \A name \in StopNames :
                (Cancels(name, "ok") /\ name \in DOMAIN tasks) => Reloads'
          /\ (Reloads /\ ~FailedWrite) => Reloads']_vars

\* After a register and a cancel that both succeeded, the store holds two
\* definitions and reloads to them.
C11_Witness ==
    /\ BagIn(Scheduled, handlers) /\ BagIn(Stopped, handlers)
    /\ Cardinality(DOMAIN tasks) = 2
    /\ store = Saved(tasks) /\ Reloads

\* a stored entry as the store's interface types it: the three fields, the
\* channel id and the delay numbers, the message a string
WellFormed(raw) ==
    /\ EntryKeys \subseteq DOMAIN raw
    /\ raw["channel_id"].t = "num"
    /\ raw["delay"].t = "num"
    /\ raw["message"].t = "str"

\* C12: load yields exactly the well-formed entries of the store: an entry
\* with a missing field or with a field of the wrong type is skipped, and a
\* well-formed entry is kept whatever sits beside it.
C12_ExactlyWellFormed ==
    [][Load => /\ DOMAIN tasks' = {n \in DOMAIN store : WellFormed(store[n])}
               /\ \A n \in DOMAIN tasks' :
                     tasks'[n] = ScheduledTask(n, store[n]["channel_id"].n,
                                               store[n]["delay"].n,
                                               store[n]["message"].s)]_vars

\* the names that have a definition and no running loop
Idle == {n \in DOMAIN tasks : n \notin DOMAIN running \/ ~Live(running[n])}

\* C13: the manager starts with the definitions the store loads to and no
\* loop; afterwards no name becomes one that has a definition without a
\* running loop: such a name had its definition, unchanged, and no loop
\* in the state before, hence since startup (a cancel removes the
\* definition, a register that adds one spawns its loop).
C13_IdleOnlyFromStartup ==
    /\ running = EmptyMap /\ tasks = load_tasks(store)
    /\ [][/\ Idle' \subseteq Idle
          /\ \A n \in Idle' : tasks'[n] = tasks[n]
          /\ \A name \in StopNames, io \in IoOutcomes :
                Cancels(name, io) => name \notin Idle'
          /\ \A args \in ArgStrings, io \in IoOutcomes :
                LET parsed == parse_definition(args)
                IN (start_send(Calling, args, io) /\ tasks' # tasks)
                   => /\ parsed.task.name \in DOMAIN running'
                      /\ Live(running'[parsed.task.name])]_vars

\* A loaded definition still has no loop while a registered one has its
\* loop.
C13_Witness ==
    /\ BagIn(Scheduled, handlers)
    /\ \E n \in Idle, m \in DOMAIN tasks \ Idle : Live(running[m]) /\ n # m

\* C14: every definition in memory, and every loop, has a non-empty name.
C14_NamesNonEmpty ==
    /\ \A n \in DOMAIN tasks : n # <<>>
    /\ \A n \in DOMAIN running : n # <<>>

\* the listtasks handlers that hold a listing
Listings == {h \in BagToSet(handlers) : h.cmd = "listtasks" /\ h.pc = "reply_result"}

\* C15: list() returns the definition set of the moment of the call, the
\* empty collection when there is no task; what the caller holds keeps
\* that content whatever is registered or cancelled afterwards; and
\* neither list() nor get(), nor the commands that call them, change the
\* definitions, the running loops or the store.
C15_ListIsSnapshot ==
    /\ [](\A h \in Listings : ListLines(Content(h.held)) = h.body)
    /\ [][/\ list_tasks(AtDelete("listtasks"))
             => /\ UNCHANGED Manager
                /\ \E h \in Listings' :
                      /\ Goto(AtDelete("listtasks"), h)
                      /\ h.body = ListLines(tasks)
                      /\ h.message = IF tasks = EmptyMap THEN "No active tasks"
                                     ELSE "Active message tasks"
          /\ \A name \in StopNames :
                (task_info(AtDelete("taskinfo"), name) /\ Strip(name, {"sp"}) # <<>>)
                => /\ UNCHANGED Manager
                   /\ IF name \in DOMAIN tasks
                      THEN \E h \in BagToSet(handlers') :
                              /\ Goto(AtDelete("taskinfo"), h)
                              /\ h.held.val = (name :> tasks[name])
                      ELSE Goto(AtDelete("taskinfo"),
                                Handler("taskinfo", "reply_result", "Task not found"))]_vars

\* A listing of two tasks is still held, unchanged, after one of them was
\* cancelled.
C15_Witness ==
    \E h \in Listings :
        /\ Cardinality(DOMAIN h.body) = 2
        /\ Cardinality(DOMAIN tasks) = 1
        /\ BagIn(Stopped, handlers)

\* the awaits a register handler can be suspended in
RegisterAwaits ==
    {"delete", "reply_help", "reply_conflict", "reply_scheduled", "reply_error"}

\* C16: a register handler is suspended only in the deletion of the
\* invoking message or in a reply; the step in which it finds the name
\* absent (and the channel resolvable) is the step that spawns the loop,
\* inserts the definition and writes the store, and every loop and every
\* definition that appears appears in such a step: no step of another
\* handler falls between the check and the start.
C16_CheckAndStartAtomic ==
    /\ [](\A h \in BagToSet(handlers) : h.cmd = "sendmessages" => h.pc \in RegisterAwaits)
    /\ [][/\ \A args \in ArgStrings, io \in IoOutcomes :
                LET parsed == parse_definition(args)
                IN (start_send(Calling, args, io) /\ parsed.ok
                      /\ parsed.task.name \notin DOMAIN tasks
                      /\ get_channel(parsed.task.channel_id) # Null)
                   => /\ parsed.task.name \in DOMAIN tasks'
                      /\ tasks'[parsed.task.name] = parsed.task
                      /\ parsed.task.name \in DOMAIN running'
                      /\ running'[parsed.task.name] = NewLoop(parsed.task.name)
                      /\ store' = IF io = "ok" THEN Saved(tasks') ELSE store
          /\ \A n \in Names :
                (\/ n \in DOMAIN tasks' \ DOMAIN tasks
                 \/ n \in DOMAIN running' /\ running'[n] = NewLoop(n)
                      /\ (n \notin DOMAIN running \/ running[n] # NewLoop(n)))
                => /\ n \notin DOMAIN tasks /\ n \notin DOMAIN running
                   /\ n \in DOMAIN tasks' /\ n \in DOMAIN running'
                   /\ \E h \in BagToSet(handlers') :
                         /\ Goto(Calling, h)
                         /\ h.pc \in {"reply_scheduled", "reply_error"}]_vars

\* Two register handlers for one name are past the deletion of their
\* messages together: one started the task, the other found the name taken
\* while the first is still in its reply.
C16_Witness ==
    /\ BagIn(Scheduled, handlers) /\ BagIn(Conflict, handlers)
    /\ Cardinality(DOMAIN tasks) = 1 /\ DOMAIN running = DOMAIN tasks
    /\ \A n \in DOMAIN running : running[n].pc = "created"

\* C17: the first step of a loop begins a send attempt; a send attempt, on
\* success and on failure alike, is followed by the delay and by nothing
\* else, and the delay by the next send attempt; and when every send
\* attempt and every delay returns, a loop that is not cancelled is in a
\* send attempt again and again.
C17_SendDelaySend ==
    /\ [][\A n \in DOMAIN running \cap DOMAIN running' :
            (Live(running[n]) /\ running'[n] # running[n])
            => CASE running[n].pc = "created" ->
                      running'[n] = [running[n] EXCEPT !.pc = "sending"]
                 [] running[n].pc = "sending" ->
                      /\ running'[n].pc = "sleeping"
                      /\ running'[n].last \in {"ok", "failed"}
                 [] running[n].pc = "sleeping" ->
                      running'[n] = [running[n] EXCEPT !.pc = "sending", !.last = "none"]]_vars
    /\ \A n \in Names : []<>(n \notin DOMAIN running \/ running[n].pc = "sending")

\* A loop is in a send attempt that follows a delay: its task was
\* registered long enough ago for the success reply to have gone.
C17_Witness ==
    /\ handlers = EmptyBag
    /\ \E n \in DOMAIN running : Live(running[n]) /\ running[n].pc = "sending"
    /\ \A s \in Slots : ~Alive(detached[s])

\* C18: a register command that goes to the failure reply "Could not
\* schedule task" has spawned no loop and left the definitions as they
\* were, whatever made it fail.
C18_FailureChangesNothing ==
    [][\A args \in ArgStrings, io \in IoOutcomes :
         (/\ start_send(Calling, args, io)
          /\ \E exc \in {"MalformedDefinition", "ChannelUnavailable", "PersistenceFailure"} :
                Goto(Calling, CouldNot(exc)))
         => UNCHANGED << tasks, running >>]_vars

\* C19: in every reachable state every name in running is in tasks, and
\* no register command reaches manager.start with a name that is in
\* running: the branch of start that cancels a running loop is not taken.
C19_RunningHasDefinition ==
    /\ [](DOMAIN running \subseteq DOMAIN tasks)
    /\ [][\A args \in ArgStrings, io \in IoOutcomes :
            LET parsed == parse_definition(args)
            IN (start_send(Calling, args, io) /\ parsed.ok /\ get(parsed.task.name) = Null)
               => /\ parsed.task.name \notin DOMAIN running
                  /\ detached' = detached]_vars

\* A register whose write failed has answered with the failure reply: the
\* loop it spawned is in running, with its definition, and the store does
\* not hold it.
C19_Witness ==
    /\ BagIn(CouldNot("PersistenceFailure"), handlers)
    /\ running # EmptyMap /\ DOMAIN running = DOMAIN tasks
    /\ store = EmptyMap

\* C20: a stoptask command given the name of a definition removes the
\* definition and the loop of that name.
C20_StoptaskRemoves ==
    [][\A name \in StopNames, io \in IoOutcomes :
         (stop_task(Stopping, name, io) /\ name \in DOMAIN tasks)
         => /\ name \notin DOMAIN tasks'
            /\ name \notin DOMAIN running']_vars

====
